---- MODULE Spec2Model ----
(***************************************************************************)
(* A model of the autotag version-resolution engine (src/autotag.go).      *)
(*                                                                         *)
(* Commit messages are sequences of lexemes; every lexeme stands for the   *)
(* characters Chars gives it, and the scheme parsers work on the           *)
(* characters of the whole message, as the regular expressions of the      *)
(* source do.  Tags are sequences of tokens ("v", decimal numbers, ".",    *)
(* "-", "+", identifiers) that parseVersion turns into versions.           *)
(***************************************************************************)
EXTENDS Naturals, Sequences, FiniteSets, TLC

VARIABLES
    commits,    \* the tracked branch: the messages of its commits, oldest first
    tags,       \* the repository's tags: a set of [name, commit]
    phase,      \* "idle" | "resolved": whether a NewRepo result is at hand
    cfg,        \* the GitRepoConfig of the last NewRepo call
    repo,       \* the GitRepo of the last NewRepo call and the error it returned
    env,        \* the git collaborator: the branches it lists, the call that fails
    msg,        \* a commit message handed to the scheme parsers
    cscheme,    \* the scheme the message is parsed under
    cstrict,    \* the strictMatch flag the message is parsed under
    cbump       \* the bumper the parsers chose: "pending" before the call

vars == <<commits, tags, phase, cfg, repo, env, msg, cscheme, cstrict, cbump>>

repoVars == <<commits, tags, phase, cfg, repo, env>>

parseVars == <<msg, cscheme, cstrict, cbump>>

(***************************************************************************)
(* Bounds.                                                                 *)
(***************************************************************************)
\* lexemes of a message classified under the conventional commits scheme
MaxConvLen == 4

\* lexemes of a message classified under the autotag scheme
MaxAutotagLen == 3

\* commits made on the branch after its first one
MaxCommits == 2

\* tags in the repository
MaxTags == 3

(***************************************************************************)
(* Characters and lexemes.                                                 *)
(***************************************************************************)
UpperLetters ==
    <<"A","B","C","D","E","F","G","H","I","J","K","L","M",
      "N","O","P","Q","R","S","T","U","V","W","X","Y","Z">>

LowerLetters ==
    <<"a","b","c","d","e","f","g","h","i","j","k","l","m",
      "n","o","p","q","r","s","t","u","v","w","x","y","z">>

Digits == {"0","1","2","3","4","5","6","7","8","9"}

Range(f) == {f[i] : i \in DOMAIN f}

\* \w of the regular expressions
IsWordChar(c) == c \in Range(UpperLetters) \cup Range(LowerLetters) \cup Digits \cup {"_"}

\* \s of the regular expressions
IsSpaceChar(c) == c \in {" ", "\n", "\t", "\r", "\f"}

\* the case folding of a (?i) expression
FoldChar(c) ==
    IF \E i \in DOMAIN UpperLetters : UpperLetters[i] = c
    THEN LowerLetters[CHOOSE i \in DOMAIN UpperLetters : UpperLetters[i] = c]
    ELSE c

FoldCase(s) == [i \in DOMAIN s |-> FoldChar(s[i])]

\* the characters of a lexeme
Chars(lx) ==
    CASE lx = "feat" -> <<"f","e","a","t">>
      [] lx = "fix" -> <<"f","i","x">>
      [] lx = "build" -> <<"b","u","i","l","d">>
      [] lx = "chore" -> <<"c","h","o","r","e">>
      [] lx = "ci" -> <<"c","i">>
      [] lx = "docs" -> <<"d","o","c","s">>
      [] lx = "perf" -> <<"p","e","r","f">>
      [] lx = "refactor" -> <<"r","e","f","a","c","t","o","r">>
      [] lx = "revert" -> <<"r","e","v","e","r","t">>
      [] lx = "style" -> <<"s","t","y","l","e">>
      [] lx = "test" -> <<"t","e","s","t">>
      [] lx = "foo" -> <<"f","o","o">>
      [] lx = "Feat" -> <<"F","e","a","t">>
      [] lx = "BREAKING CHANGE:" ->
            <<"B","R","E","A","K","I","N","G"," ","C","H","A","N","G","E",":">>
      [] lx = "[major]" -> <<"[","m","a","j","o","r","]">>
      [] lx = "#major" -> <<"#","m","a","j","o","r">>
      [] lx = "[Major]" -> <<"[","M","a","j","o","r","]">>
      [] lx = "[minor]" -> <<"[","m","i","n","o","r","]">>
      [] lx = "#minor" -> <<"#","m","i","n","o","r">>
      [] lx = "#MINOR" -> <<"#","M","I","N","O","R">>
      [] lx = "[patch]" -> <<"[","p","a","t","c","h","]">>
      [] lx = "#patch" -> <<"#","p","a","t","c","h">>
      [] lx = "[PATCH]" -> <<"[","P","A","T","C","H","]">>
      [] lx = "major" -> <<"m","a","j","o","r">>
      [] lx = "dev" -> <<"d","e","v">>
      [] lx = "next" -> <<"n","e","x","t">>
      [] lx = "rc" -> <<"r","c">>
      [] lx = "g1" -> <<"g","1">>
      [] lx = "10" -> <<"1","0">>
      [] lx = "11" -> <<"1","1">>
      [] lx = "12" -> <<"1","2">>
      [] lx = "01" -> <<"0","1">>
      [] lx = "0a" -> <<"0","a">>
      [] lx = "a_b" -> <<"a","_","b">>
      [] OTHER -> <<lx>>

RECURSIVE Text(_)
\* the message text: the characters of its lexemes, in order
Text(m) == IF m = <<>> THEN <<>> ELSE Chars(Head(m)) \o Text(Tail(m))

\* strings.Contains
Contains(s, p) ==
    \E i \in 1..(Len(s) + 1) :
        /\ i + Len(p) - 1 <= Len(s)
        /\ SubSeq(s, i, i + Len(p) - 1) = p

\* MatchString of a case-insensitive alternation of literals
MatchAnyFold(s, ps) == \E p \in ps : Contains(FoldCase(s), p)

(***************************************************************************)
(* The autotag scheme.                                                     *)
(***************************************************************************)
majorRex(s) == MatchAnyFold(s, {Chars("[major]"), Chars("#major")})

minorRex(s) == MatchAnyFold(s, {Chars("[minor]"), Chars("#minor")})

patchRex(s) == MatchAnyFold(s, {Chars("[patch]"), Chars("#patch")})

\* parseAutotagCommit with the first two tests in the other order
parseAutotagMinorFirst(s) ==
    IF minorRex(s) THEN "minor"
    ELSE IF majorRex(s) THEN "major"
    ELSE IF patchRex(s) THEN "patch"
    ELSE "nil"

parseAutotagCommit(s) ==
    IF majorRex(s) THEN "major"
    ELSE IF minorRex(s) THEN "minor"
    ELSE IF patchRex(s) THEN "patch"
    ELSE "nil"

(***************************************************************************)
(* The conventional commits scheme.                                        *)
(***************************************************************************)
RECURSIVE SkipSpace(_, _)
\* \s* from position i: the first position not holding a space
SkipSpace(s, i) ==
    IF i <= Len(s) /\ IsSpaceChar(s[i]) THEN SkipSpace(s, i + 1) ELSE i

RECURSIVE SkipWord(_, _)
\* \w* from position i: the first position not holding a word character
SkipWord(s, i) ==
    IF i <= Len(s) /\ IsWordChar(s[i]) THEN SkipWord(s, i + 1) ELSE i

RECURSIVE SkipScope(_, _)
\* [^()\r\n]* from position i
SkipScope(s, i) ==
    IF i <= Len(s) /\ s[i] \notin {"(", ")", "\r", "\n"}
    THEN SkipScope(s, i + 1)
    ELSE i

\* FindStringSubmatch of conventionalCommitRex as findNamedMatches returns it:
\* the type and breaking groups ("" when the expression does not match)
conventionalCommitRex(s) ==
    LET a == SkipSpace(s, 1)
        b == SkipWord(s, a)
        k == SkipScope(s, b + 1)
        c == IF b <= Len(s) /\ s[b] = "("
             THEN (IF k <= Len(s) /\ s[k] = ")" THEN k + 1 ELSE b + 1)
             ELSE b
    IN  IF b = a
        THEN [type |-> <<>>, breaking |-> ""]
        ELSE [type |-> SubSeq(s, a, b - 1),
              breaking |-> IF c <= Len(s) /\ s[c] = "!" THEN "!" ELSE ""]

findNamedMatches(s) == conventionalCommitRex(s)

PatchTypes ==
    {"build", "chore", "ci", "docs", "fix", "perf", "refactor", "revert", "style", "test"}

\* the bumper of a type, "nil" for a type that is not in the table
conventionalCommitAuthorizedTypes(type) ==
    IF type = Chars("feat") THEN "minor"
    ELSE IF \E t \in PatchTypes : type = Chars(t) THEN "patch"
    ELSE "nil"

\* parseConventionalCommit with the test of the "!" lost
parseConventionalNoBang(s, strictMatch) ==
    LET matches == findNamedMatches(s)
        bumperType == conventionalCommitAuthorizedTypes(matches.type)
    IN  IF strictMatch /\ bumperType = "nil" THEN "nil"
        ELSE IF Contains(s, <<"\n">> \o Chars("BREAKING CHANGE:")) THEN "major"
        ELSE bumperType

\* parseConventionalCommit with the breaking change tests before the test of
\* the type
parseConventionalBreakingFirst(s, strictMatch) ==
    LET matches == findNamedMatches(s)
        bumperType == conventionalCommitAuthorizedTypes(matches.type)
    IN  IF Contains(s, <<"\n">> \o Chars("BREAKING CHANGE:")) THEN "major"
        ELSE IF matches.breaking = "!" THEN "major"
        ELSE bumperType

parseConventionalCommit(s, strictMatch) ==
    LET matches == findNamedMatches(s)
        bumperType == conventionalCommitAuthorizedTypes(matches.type)
        authorized == bumperType # "nil"
    IN  IF strictMatch /\ ~authorized THEN "nil"
        ELSE IF Contains(s, <<"\n">> \o Chars("BREAKING CHANGE:")) THEN "major"
        ELSE IF matches.breaking = "!" THEN "major"
        ELSE bumperType

\* the scheme switch of parseCommit
schemeBumper(m, scheme, strictMatch) ==
    IF scheme = "conventional" THEN parseConventionalCommit(Text(m), strictMatch)
    ELSE IF scheme \in {"", "autotag"} THEN parseAutotagCommit(Text(m))
    ELSE "nil"

(***************************************************************************)
(* Versions (github.com/hashicorp/go-version as autotag uses it).  A       *)
(* version holds its numeric segments and, as the library does, its        *)
(* prerelease and metadata as text: here the tokens of that text.          *)
(***************************************************************************)
\* the decimal numerals strconv reads and writes: Numerals[n + 1] is n
Numerals == <<"0","1","2","3","4","5","6","7","8","9","10","11","12">>

IsNumeral(tok) == \E i \in DOMAIN Numerals : Numerals[i] = tok

\* strconv.ParseUint of a numeral
ParseUint(tok) == (CHOOSE i \in DOMAIN Numerals : Numerals[i] = tok) - 1

\* strconv.FormatUint
FormatUint(n) == Numerals[n + 1]

\* the nil *version.Version
NoVersion == [seg |-> <<>>, pre |-> <<>>, meta |-> <<>>]

IsIdent(tok) == tok \notin {".", "-", "+"}

\* identifiers separated by dots: what the library accepts after "-" or "+"
IsIdentSeq(ts) ==
    /\ Len(ts) % 2 = 1
    /\ \A i \in DOMAIN ts : IF i % 2 = 1 THEN IsIdent(ts[i]) ELSE ts[i] = "."

RECURSIVE SegEnd(_, _)
\* the position of the last numeral of the dotted numerals that start at i
SegEnd(t, i) ==
    IF i + 2 <= Len(t) /\ t[i + 1] = "." /\ IsNumeral(t[i + 2])
    THEN SegEnd(t, i + 2)
    ELSE i

\* the position of the first "+" of t, Len(t) + 1 when it has none
PlusAt(t) ==
    IF \E i \in DOMAIN t : t[i] = "+"
    THEN CHOOSE i \in DOMAIN t : t[i] = "+" /\ \A j \in 1..(i - 1) : t[j] # "+"
    ELSE Len(t) + 1

\* version.NewVersion: NoVersion when the text is no version
NewVersion(t) ==
    LET body == IF t # <<>> /\ t[1] = "v" THEN Tail(t) ELSE t
        e == SegEnd(body, 1)
        nseg == (e + 1) \div 2
        rest == SubSeq(body, e + 1, Len(body))
        p == PlusAt(rest)
        preRaw == SubSeq(rest, 1, p - 1)
        metaRaw == SubSeq(rest, p + 1, Len(rest))
        pre == IF preRaw # <<>> /\ preRaw[1] = "-" THEN Tail(preRaw) ELSE preRaw
        preOk == \/ preRaw = <<>>
                 \/ preRaw[1] = "-" /\ IsIdentSeq(pre)
                 \/ preRaw[1] # "-" /\ ~IsNumeral(preRaw[1]) /\ IsIdentSeq(preRaw)
        metaOk == p > Len(rest) \/ IsIdentSeq(metaRaw)
    IN  IF body = <<>> \/ ~IsNumeral(body[1]) THEN NoVersion
        ELSE IF ~preOk \/ ~metaOk THEN NoVersion
        ELSE [seg |-> [i \in 1..(IF nseg < 3 THEN 3 ELSE nseg) |->
                          IF i <= nseg THEN ParseUint(body[2 * i - 1]) ELSE 0],
              pre |-> pre,
              meta |-> metaRaw]

\* parseVersion: versionRex only strips a leading "v", which NewVersion accepts
\* as well, and a version that does not parse comes back nil with no error
parseVersion(t) == NewVersion(t)

\* maybeVersionFromTag
maybeVersionFromTag(t) == IF t = <<>> THEN NoVersion ELSE parseVersion(t)

RECURSIVE JoinDots(_)
\* strings.Join(numerals, ".")
JoinDots(seg) ==
    IF seg = <<>> THEN <<>>
    ELSE IF Len(seg) = 1 THEN <<FormatUint(seg[1])>>
    ELSE <<FormatUint(seg[1]), ".">> \o JoinDots(Tail(seg))

\* (*Version).String
String(v) ==
    JoinDots(v.seg)
        \o (IF v.pre # <<>> THEN <<"-">> \o v.pre ELSE <<>>)
        \o (IF v.meta # <<>> THEN <<"+">> \o v.meta ELSE <<>>)

\* strings.Split(text, "."): the identifiers of a dotted text
Split(ts) == [i \in 1..((Len(ts) + 1) \div 2) |-> ts[2 * i - 1]]

\* strings.HasPrefix
HasPrefix(ts, p) == Len(p) <= Len(ts) /\ SubSeq(ts, 1, Len(p)) = p

\* the byte order of the identifiers the model uses
IdentOrder == <<"-5", "abc", "dev", "g1", "next", "pre", "rc", "x">>

IdentRank(tok) ==
    IF \E i \in DOMAIN IdentOrder : IdentOrder[i] = tok
    THEN CHOOSE i \in DOMAIN IdentOrder : IdentOrder[i] = tok
    ELSE 0

\* comparePart of the library; "" stands for a part one side lacks
comparePart(a, b) ==
    LET an == IsNumeral(a)
        bn == IsNumeral(b)
    IN  IF a = b THEN 0
        ELSE IF a = "" THEN (IF bn THEN 0 - 1 ELSE 1)
        ELSE IF b = "" THEN (IF an THEN 1 ELSE 0 - 1)
        ELSE IF an /\ ~bn THEN 0 - 1
        ELSE IF ~an /\ bn THEN 1
        ELSE IF ~an /\ ~bn /\ IdentRank(a) > IdentRank(b) THEN 1
        ELSE IF an /\ bn /\ ParseUint(a) > ParseUint(b) THEN 1
        ELSE 0 - 1

RECURSIVE comparePartsFrom(_, _, _)
comparePartsFrom(a, b, i) ==
    IF i > Len(a) /\ i > Len(b) THEN 0
    ELSE LET c == comparePart(IF i <= Len(a) THEN a[i] ELSE "",
                              IF i <= Len(b) THEN b[i] ELSE "")
         IN  IF c # 0 THEN c ELSE comparePartsFrom(a, b, i + 1)

\* comparePrereleases of the library
comparePrereleases(a, b) ==
    IF a = b THEN 0
    ELSE IF a = <<>> THEN 1
    ELSE IF b = <<>> THEN 0 - 1
    ELSE comparePartsFrom(Split(a), Split(b), 1)

RECURSIVE compareSegmentsFrom(_, _, _)
\* the segments, the shorter side read as padded with zeros
compareSegmentsFrom(a, b, i) ==
    IF i > Len(a) /\ i > Len(b) THEN 0
    ELSE LET x == IF i <= Len(a) THEN a[i] ELSE 0
             y == IF i <= Len(b) THEN b[i] ELSE 0
         IN  IF x < y THEN 0 - 1
             ELSE IF x > y THEN 1
             ELSE compareSegmentsFrom(a, b, i + 1)

\* (*Version).Compare: metadata takes no part
Compare(v, o) ==
    LET c == compareSegmentsFrom(v.seg, o.seg, 1)
    IN  IF c # 0 THEN c ELSE comparePrereleases(v.pre, o.pre)

GreaterThan(v, o) == Compare(v, o) > 0

Equal(v, o) == Compare(v, o) = 0

(***************************************************************************)
(* The bumpers.                                                            *)
(***************************************************************************)
majorBumper(v) == [seg |-> <<v.seg[1] + 1, 0, 0>>, pre |-> <<>>, meta |-> <<>>]

minorBumper(v) == [seg |-> <<v.seg[1], v.seg[2] + 1, 0>>, pre |-> <<>>, meta |-> <<>>]

patchBumper(v) == [seg |-> <<v.seg[1], v.seg[2], v.seg[3] + 1>>, pre |-> <<>>, meta |-> <<>>]

\* b.bump(v) for a bumper that is not nil
bump(b, v) ==
    IF b = "major" THEN majorBumper(v)
    ELSE IF b = "minor" THEN minorBumper(v)
    ELSE patchBumper(v)

(***************************************************************************)
(* Configuration.                                                          *)
(***************************************************************************)
\* datetimeTsLayout, the YYYYMMDDHHMMSS layout
datetimeTsLayout == "20060102150405"

\* timeNow().UTC() as the tests fix it: 2019-01-01 00:00:00, in epoch seconds
\* and in the datetime layout
EpochNow == "1546300800"

DatetimeNow == "20190101000000"

RECURSIVE SplitChars(_, _)
\* strings.Split(s, ".") on characters; cur is the identifier being read
SplitChars(s, cur) ==
    IF s = <<>> THEN <<cur>>
    ELSE IF Head(s) = "." THEN <<cur>> \o SplitChars(Tail(s), <<>>)
    ELSE SplitChars(Tail(s), Append(cur, Head(s)))

\* ^[0-9A-Za-z-]+$ : semVerPreReleaseName and semVerBuildMetaRex
semVerIdentRex(s) ==
    /\ s # <<>>
    /\ \A i \in DOMAIN s : s[i] # "_" /\ (IsWordChar(s[i]) \/ s[i] = "-")

validateSemVerBuildMetadata(meta) ==
    \A s \in Range(SplitChars(Text(meta), <<>>)) : s # <<>> /\ semVerIdentRex(s)

validateSemVerPreReleaseName(meta) ==
    \A s \in Range(SplitChars(Text(meta), <<>>)) :
        s # <<>> /\ ~HasPrefix(s, <<"0">>) /\ semVerIdentRex(s)

\* validateConfig: "" when the configuration is valid
validateConfig(c) ==
    IF c.buildMetadata # <<>> /\ ~validateSemVerBuildMetadata(c.buildMetadata)
    THEN "not valid SemVer build metadata"
    ELSE IF c.buildNumber /\ c.buildMetadata # <<>>
    THEN "cannot input metadata if enable build number"
    ELSE IF c.preReleaseName # <<>> /\ ~validateSemVerPreReleaseName(c.preReleaseName)
    THEN "not valid SemVer pre-release name"
    ELSE IF c.preReleaseTimestampLayout \notin {"", "datetime", "epoch"}
    THEN "pre-release-timestamp is not valid"
    ELSE ""

(***************************************************************************)
(* The GitRepo under construction.                                         *)
(***************************************************************************)
\* the GitRepo r of NewRepo as it stands when NewRepo returns, with the error
\* NewRepo returns: with an error no GitRepo is returned, and newVersion is
\* NoVersion.  NilRepo(err) is r before parseTags has filled it
NilRepo(err) ==
    [err |-> err,
     newVersion |-> NoVersion,
     currentVersion |-> NoVersion, currentTag |-> 0,
     latestTagVersion |-> NoVersion, latestTagCommit |-> 0,
     curPreReleaseVer |-> NoVersion,
     branchID |-> 0,
     branch |-> "",
     reads |-> {}]

\* r with calls added to the calls on the collaborator it records
Read(r, calls) == [r EXCEPT !.reads = @ \cup calls]

\* the versions map of parseTags: one entry for every tag that parses
Versions(ts) ==
    {e \in {[v |-> maybeVersionFromTag(t.name), c |-> t.commit, tag |-> t.name] : t \in ts} :
        e.v # NoVersion}

RECURSIVE SortedOrders(_)
\* what sort.Sort(sort.Reverse(version.Collection(keys))) can leave: the map is
\* read in any order and the sort is not stable, so versions of the same
\* precedence come in any order
SortedOrders(es) ==
    IF es = {} THEN {<<>>}
    ELSE UNION {{<<e>> \o o : o \in SortedOrders(es \ {e})} :
                    e \in {x \in es : \A y \in es : Compare(x.v, y.v) >= 0}}

\* FirstStable with the prerelease test lost: the latest tag is the baseline
FirstAny(keys) == IF keys = <<>> THEN 0 ELSE 1

\* the position in keys of the first version with no prerelease, 0 if none
FirstStable(keys) ==
    IF \E i \in DOMAIN keys : keys[i].v.pre = <<>>
    THEN CHOOSE i \in DOMAIN keys :
            keys[i].v.pre = <<>> /\ \A j \in 1..(i - 1) : keys[j].v.pre # <<>>
    ELSE 0

\* the loop of parseTags over the sorted keys
parseTags(name, keys) ==
    LET s == FirstStable(keys)
        m == {i \in 1..s : keys[i].v.pre # <<>> /\ HasPrefix(keys[i].v.pre, name \o <<".">>)}
        cur == IF name # <<>> /\ m # {}
               THEN keys[CHOOSE i \in m : \A j \in m : i <= j].v
               ELSE NoVersion
    IN  IF s = 0
        THEN NilRepo("no stable (non pre-release) version tags found")
        ELSE [NilRepo("") EXCEPT
                !.latestTagVersion = keys[1].v,
                !.latestTagCommit = keys[1].c,
                !.curPreReleaseVer = cur,
                !.currentVersion = keys[s].v,
                !.currentTag = keys[s].c]

\* what parseTags leaves of the GitRepo r: p is what its loop found, and
\* CommitByRevision is called for every tag that is a version
withTags(r, keys, p) ==
    [p EXCEPT !.branch = r.branch,
              !.reads = r.reads \cup {"Tags"}
                          \cup (IF keys # <<>> THEN {"CommitByRevision"} ELSE {})]

\* parseTags on the GitRepo r, with the calls it makes on the collaborator e
parseTagsOn(r, name, keys, e) ==
    IF e.fault = "Tags"
    THEN [Read(r, {"Tags"}) EXCEPT !.err = "failed to fetch tags"]
    ELSE IF e.fault = "CommitByRevision" /\ keys # <<>>
    THEN [Read(r, {"Tags", "CommitByRevision"}) EXCEPT !.err = "error reading commit"]
    ELSE withTags(r, keys, parseTags(name, keys))

(***************************************************************************)
(* Composition of the prerelease.                                          *)
(***************************************************************************)
\* the result of a function that returns (*version.Version, error)
Ok(v) == [err |-> "", v |-> v]

Err(e) == [err |-> e, v |-> NoVersion]

\* the prerelease number preReleaseVersion appends
prereleaseNumber(curPrereleaseVer) ==
    LET prereleaseParts == Split(curPrereleaseVer.pre)
    IN  IF curPrereleaseVer = NoVersion \/ Len(prereleaseParts) # 2 THEN Ok("1")
        ELSE IF ~IsNumeral(prereleaseParts[2])
        THEN Err("prerelease build number must be a unsigned integer")
        ELSE Ok(FormatUint(ParseUint(prereleaseParts[2]) + 1))

\* version.NewVersion with its error
NewVersionErr(t) ==
    LET v == NewVersion(t)
    IN  IF v = NoVersion THEN Err("Malformed version") ELSE Ok(v)

\* preReleaseVersion with the number asked for written whatever the layout
preReleaseVersionNumbered(v, curPrereleaseVer, name, tsLayout, autoIncrease) ==
    LET timestamp == IF tsLayout = "epoch" THEN EpochNow ELSE DatetimeNow
        num == prereleaseNumber(curPrereleaseVer)
        buf == IF name # <<>> /\ autoIncrease
               THEN name \o <<".">> \o <<num.v>>
               ELSE IF tsLayout # ""
               THEN name \o (IF name # <<>> THEN <<".">> ELSE <<>>) \o <<timestamp>>
               ELSE name
    IN  IF name = <<>> /\ tsLayout = "" THEN Ok(v)
        ELSE IF v.pre # <<>>
        THEN Err("*version.Version already has a PreRelease value set")
        ELSE IF name # <<>> /\ autoIncrease /\ num.err # ""
        THEN Err(num.err)
        ELSE NewVersionErr(String(v) \o <<"-">> \o buf)

preReleaseVersion(v, curPrereleaseVer, name, tsLayout, autoIncrease) ==
    LET timestamp == IF tsLayout = "epoch" THEN EpochNow ELSE DatetimeNow
        num == prereleaseNumber(curPrereleaseVer)
        buf == IF tsLayout # ""
               THEN name \o (IF name # <<>> THEN <<".">> ELSE <<>>) \o <<timestamp>>
               ELSE IF name # <<>> /\ autoIncrease
               THEN name \o <<".">> \o <<num.v>>
               ELSE name
    IN  IF name = <<>> /\ tsLayout = "" THEN Ok(v)
        ELSE IF v.pre # <<>>
        THEN Err("*version.Version already has a PreRelease value set")
        ELSE IF tsLayout = "" /\ name # <<>> /\ autoIncrease /\ num.err # ""
        THEN Err(num.err)
        ELSE NewVersionErr(String(v) \o <<"-">> \o buf)

(***************************************************************************)
(* calcVersion.                                                            *)
(***************************************************************************)
\* bumpOrError with the strictMatch test lost: no bumper is always an error
bumpOrErrorAlways(currentVersion, b, strictMatch) ==
    IF b = "nil" THEN Err("no match found for commit")
    ELSE Ok(bump(b, currentVersion))

\* bumpOrError with the error lost: no bumper is never an error
bumpOrErrorNever(currentVersion, b, strictMatch) ==
    IF b # "nil" THEN Ok(bump(b, currentVersion)) ELSE Ok(NoVersion)

\* parseCommit once the scheme parser has chosen the bumper b: the bump of
\* currentVersion, NoVersion (nil) for no bumper, an error under strictMatch
bumpOrError(currentVersion, b, strictMatch) ==
    IF strictMatch /\ b = "nil" THEN Err("no match found for commit")
    ELSE IF b # "nil" THEN Ok(bump(b, currentVersion))
    ELSE Ok(NoVersion)

parseCommit(currentVersion, m, scheme, strictMatch) ==
    bumpOrError(currentVersion, schemeBumper(m, scheme, strictMatch), strictMatch)

\* repo.RevList("tag..head"): the commits after the tag's up to the head,
\* the newest first
RevList(cs, from, to) == [i \in 1..(to - from) |-> cs[to - i + 1]]

\* keepGreater with the comparison lost: the last commit that classifies wins
keepLast(newVersion, p) == IF p.v # NoVersion THEN p.v ELSE newVersion

\* one turn of the loop of calcVersion, p being what parseCommit returned
keepGreater(newVersion, p) ==
    IF p.v # NoVersion /\ GreaterThan(p.v, newVersion) THEN p.v ELSE newVersion

RECURSIVE walkCommits(_, _, _, _, _, _)
RECURSIVE walkStep(_, _, _, _, _, _, _)
\* the loop of calcVersion over l[i], l[i-1], ..., l[1]
walkCommits(currentVersion, newVersion, l, i, scheme, strictMatch) ==
    IF i = 0 THEN Ok(newVersion)
    ELSE walkStep(currentVersion, newVersion, l, i, scheme, strictMatch,
                  parseCommit(currentVersion, l[i], scheme, strictMatch))

walkStep(currentVersion, newVersion, l, i, scheme, strictMatch, p) ==
    IF p.err # "" THEN p
    ELSE walkCommits(currentVersion, keepGreater(newVersion, p), l, i - 1,
                     scheme, strictMatch)

\* fallbackPatch with the patch bump lost: what the loop left is the bump
fallbackNone(currentVersion, strictMatch, w) ==
    IF w.err # "" THEN w
    ELSE IF Equal(w.v, currentVersion) /\ strictMatch
    THEN Err("no version to bump found in commit message")
    ELSE w

\* the end of the bump in calcVersion, w being what the loop left: the patch
\* bump when nothing moved
fallbackPatch(currentVersion, strictMatch, w) ==
    IF w.err # "" THEN w
    ELSE IF Equal(w.v, currentVersion)
    THEN (IF strictMatch THEN Err("no version to bump found in commit message")
          ELSE Ok(patchBumper(currentVersion)))
    ELSE w

\* the bump of calcVersion
bumpVersion(currentVersion, l, scheme, strictMatch) ==
    IF Len(l) = 0 /\ strictMatch THEN Err("no version to bump for the same commit")
    ELSE fallbackPatch(currentVersion, strictMatch,
            walkCommits(currentVersion, currentVersion, l, Len(l), scheme, strictMatch))

\* buildSuffix with the increment lost
buildSuffixSame(metadata, buildNumber, buildMetadata) ==
    IF ~buildNumber THEN buildMetadata
    ELSE IF metadata = <<>> THEN <<"1">>
    ELSE <<metadata[1]>>

\* the build metadata calcVersion appends
buildSuffix(metadata, buildNumber, buildMetadata) ==
    IF ~buildNumber THEN buildMetadata
    ELSE IF metadata = <<>> THEN <<"1">>
    ELSE <<FormatUint(ParseUint(metadata[1]) + 1)>>

\* the build metadata step of calcVersion
buildVersion(newVersion, latestTagVersion, buildNumber, buildMetadata) ==
    IF buildNumber /\ buildMetadata # <<>>
    THEN Err("cannot input custom method if enable build number")
    ELSE IF buildNumber /\ latestTagVersion.meta # <<>>
            /\ (Len(latestTagVersion.meta) # 1 \/ ~IsNumeral(latestTagVersion.meta[1]))
    THEN Err("build number must be a unsigned integer")
    ELSE IF buildNumber \/ buildMetadata # <<>>
    THEN NewVersionErr(String(newVersion) \o <<"+">>
                         \o buildSuffix(latestTagVersion.meta, buildNumber, buildMetadata))
    ELSE Ok(newVersion)

\* the end of calcVersion: out is the version with its build metadata
calcDone(r, head, out) ==
    IF out.err # "" THEN [r EXCEPT !.err = out.err]
    ELSE [r EXCEPT !.newVersion = out.v, !.branchID = head]

\* calcBuild with the build number read from the baseline
calcBuildOfBaseline(r, c, head, pre) ==
    IF pre.err # "" THEN [r EXCEPT !.err = pre.err]
    ELSE calcDone(r, head,
            buildVersion(pre.v, r.currentVersion, c.buildNumber, c.buildMetadata))

\* calcVersion after the prerelease step
calcBuild(r, c, head, pre) ==
    IF pre.err # "" THEN [r EXCEPT !.err = pre.err]
    ELSE calcDone(r, head,
            buildVersion(pre.v, r.latestTagVersion, c.buildNumber, c.buildMetadata))

\* calcVersion after the bump b
calcPre(r, c, head, b) ==
    IF b.err # "" THEN [r EXCEPT !.err = b.err]
    ELSE IF c.preReleaseName # <<>> \/ c.preReleaseTimestampLayout # ""
    THEN calcBuild(r, c, head,
            preReleaseVersion(b.v, r.curPreReleaseVer, c.preReleaseName,
                              c.preReleaseTimestampLayout, c.preReleaseNumber))
    ELSE calcBuild(r, c, head, b)

\* calcVersion on the GitRepo r that parseTags filled.  The head of a branch
\* the collaborator does not list cannot be resolved; an error of RevList is
\* logged and the walk goes on with the list it returned, which is empty
calcVersion(r, c, cs, e) ==
    IF e.fault = "BranchCommitID" \/ r.branch \notin Range(e.branches)
    THEN [Read(r, {"BranchCommitID"}) EXCEPT !.err = "error getting head commit"]
    ELSE IF e.fault = "BranchCommit"
    THEN [Read(r, {"BranchCommitID", "BranchCommit"})
            EXCEPT !.err = "error getting branch commit"]
    ELSE calcPre(Read(r, {"BranchCommitID", "BranchCommit", "RevList"}), c, Len(cs),
                 bumpVersion(r.currentVersion,
                             IF e.fault = "RevList" THEN <<>>
                             ELSE RevList(cs, r.currentTag, Len(cs)),
                             c.scheme, c.strictMatch))

\* NewRepo after validation, r being what parseTags left
newRepoParsed(c, cs, e, r) ==
    IF r.err # "" THEN r
    ELSE calcVersion(r,
            IF c.preReleaseTimestampLayout = "datetime"
            THEN [c EXCEPT !.preReleaseTimestampLayout = datetimeTsLayout]
            ELSE c,
            cs, e)

RECURSIVE branchLoopFirst(_, _, _)
\* branchLoop that ends at master as it does at main
branchLoopFirst(bs, i, found) ==
    IF i > Len(bs) THEN found
    ELSE IF bs[i] \in {"main", "master"} THEN bs[i]
    ELSE branchLoopFirst(bs, i + 1, found)

RECURSIVE branchLoop(_, _, _)
\* the loop of NewRepo over the branches from the i-th on: main ends it,
\* master is kept while the search for main goes on
branchLoop(bs, i, found) ==
    IF i > Len(bs) THEN found
    ELSE IF bs[i] = "main" THEN "main"
    ELSE IF bs[i] = "master" THEN branchLoop(bs, i + 1, "master")
    ELSE branchLoop(bs, i + 1, found)

\* the GitRepo NewRepo builds once the loop has left the branch b
settled(b) ==
    IF b = "" THEN Read(NilRepo("no main or master branch found"), {"Branches"})
    ELSE [Read(NilRepo(""), {"Branches"}) EXCEPT !.branch = b]

\* the GitRepo NewRepo builds: cfg.Branch, or the branch it looks for when
\* none is configured
settleBranch(c, e) ==
    IF c.branch # "" THEN [NilRepo("") EXCEPT !.branch = c.branch]
    ELSE IF e.fault = "Branches"
    THEN Read(NilRepo("failed to list branches"), {"Branches"})
    ELSE settled(branchLoop(e.branches, 1, ""))

\* NewRepo from the GitRepo r it built
newRepoOnBranch(c, cs, keys, e, r) ==
    IF r.err # "" THEN r
    ELSE newRepoParsed(c, cs, e, parseTagsOn(r, c.preReleaseName, keys, e))

\* newRepoValidated with the error of validation looked at last
newRepoValidatedLast(c, cs, keys, e, invalid) ==
    IF invalid # ""
    THEN [newRepoOnBranch(c, cs, keys, e, settleBranch(c, e))
            EXCEPT !.err = invalid, !.newVersion = NoVersion]
    ELSE newRepoOnBranch(c, cs, keys, e, settleBranch(c, e))

\* NewRepo after validation, which left the error invalid
newRepoValidated(c, cs, keys, e, invalid) ==
    IF invalid # "" THEN NilRepo(invalid)
    ELSE newRepoOnBranch(c, cs, keys, e, settleBranch(c, e))

\* NewRepo with the sorted keys parseTags works on and the collaborator e
newRepo(c, cs, keys, e) == newRepoValidated(c, cs, keys, e, validateConfig(c))

\* the tag name of tagNewVersion
tagName(r, c) == IF c.prefix THEN <<"v">> \o String(r.newVersion) ELSE String(r.newVersion)

(***************************************************************************)
(* The repository and the runs of autotag on it.                           *)
(***************************************************************************)
DefaultCfg ==
    [preReleaseName |-> <<>>, preReleaseTimestampLayout |-> "",
     preReleaseNumber |-> FALSE, buildMetadata |-> <<>>,
     scheme |-> "", prefix |-> TRUE, strictMatch |-> FALSE, buildNumber |-> FALSE,
     branch |-> ""]

\* a repository with the branch master, where no call fails
DefaultEnv == [branches |-> <<"master">>, fault |-> "none"]

\* the message of the first commit of the branch
InitialCommit == <<"foo">>

\* a commit on the tracked branch
Commit(m) ==
    /\ phase = "idle"
    /\ Len(commits) <= MaxCommits
    /\ commits' = Append(commits, m)
    /\ UNCHANGED <<tags, phase, cfg, repo, env>>
    /\ UNCHANGED parseVars

\* git tag on the head of the branch
MakeTag(t) ==
    /\ phase = "idle"
    /\ Cardinality(tags) < MaxTags
    /\ \A u \in tags : u.name # t
    /\ tags' = tags \cup {[name |-> t, commit |-> Len(commits)]}
    /\ UNCHANGED <<commits, phase, cfg, repo, env>>
    /\ UNCHANGED parseVars

\* NewRepo(c): validation, parseTags and calcVersion
NewRepo(c) ==
    /\ phase = "idle"
    /\ \E keys \in SortedOrders(Versions(tags)) :
          repo' = newRepo(c, commits, keys, env)
    /\ cfg' = c
    /\ phase' = "resolved"
    /\ UNCHANGED <<commits, tags, env>>
    /\ UNCHANGED parseVars

\* AutoTag called whatever NewRepo returned
AutoTagAnyway ==
    /\ phase = "resolved"
    /\ Cardinality(tags) < MaxTags
    /\ tags' = tags \cup {[name |-> tagName(repo, cfg), commit |-> repo.branchID]}
    /\ phase' = "idle"
    /\ cfg' = DefaultCfg
    /\ repo' = NilRepo("")
    /\ UNCHANGED <<commits, env>>
    /\ UNCHANGED parseVars

\* AutoTag on the GitRepo NewRepo returned: CreateTag fails on a name in use
AutoTag ==
    /\ phase = "resolved"
    /\ repo.err = ""
    /\ Cardinality(tags) < MaxTags
    /\ LET name == tagName(repo, cfg)
       IN  tags' = IF \E u \in tags : u.name = name
                   THEN tags
                   ELSE tags \cup {[name |-> name, commit |-> repo.branchID]}
    /\ phase' = "idle"
    /\ cfg' = DefaultCfg
    /\ repo' = NilRepo("")
    /\ UNCHANGED <<commits, env>>
    /\ UNCHANGED parseVars

\* the run ends with no tag written: NewRepo failed, or only the version was asked
Exit ==
    /\ phase = "resolved"
    /\ phase' = "idle"
    /\ cfg' = DefaultCfg
    /\ repo' = NilRepo("")
    /\ UNCHANGED <<commits, tags, env>>
    /\ UNCHANGED parseVars

\* a scheme parser applied to a message
ClassifyCommit ==
    /\ cbump = "pending"
    /\ cbump' = schemeBumper(msg, cscheme, cstrict)
    /\ UNCHANGED <<msg, cscheme, cstrict>>
    /\ UNCHANGED repoVars

(***************************************************************************)
(* Inputs.                                                                 *)
(***************************************************************************)
RECURSIVE SeqsUpTo(_, _)
\* the sequences over S of length at most n
SeqsUpTo(S, n) ==
    IF n = 0 THEN {<<>>}
    ELSE SeqsUpTo(S, n - 1)
         \cup {Append(q, x) : q \in {r \in SeqsUpTo(S, n - 1) : Len(r) = n - 1}, x \in S}

Dev == <<"dev">>

RcX == <<"rc", ".", "x">>

\* commit messages: a major, a minor and a patch bump under both schemes, a
\* message neither scheme knows, and a breaking change (by "!" and by its
\* footer) of an unknown type
BumpMessages ==
    { <<"feat", "!", ":", " ", "[major]">>,
      <<"feat", ":", " ", "#minor">>,
      <<"fix", ":", " ", "[patch]">>,
      <<"foo">>,
      <<"foo", "!", ":", " ", "foo", "\n", "BREAKING CHANGE:", " ", "foo">> }

BumpTags ==
    { <<"v", "1", ".", "0", ".", "1">>,
      <<"0", ".", "9", ".", "0">>,
      <<"foo">>,
      <<"v", "1", ".", "0", ".", "2", "-", "dev", ".", "1">> }

BumpConfigs ==
    { [DefaultCfg EXCEPT !.scheme = s, !.strictMatch = st,
                         !.preReleaseName = o[1], !.preReleaseNumber = o[2],
                         !.buildNumber = o[3]] :
        s \in {"autotag", "conventional"}, st \in BOOLEAN,
        o \in {<<<<>>, FALSE, FALSE>>, <<Dev, TRUE, FALSE>>, <<RcX, TRUE, FALSE>>,
                <<<<>>, FALSE, TRUE>>} }

InitRepo ==
    /\ commits = <<InitialCommit>>
    /\ tags = {}
    /\ phase = "idle"
    /\ cfg = DefaultCfg
    /\ repo = NilRepo("")
    /\ env = DefaultEnv

InitParse ==
    /\ msg = <<>>
    /\ cscheme = ""
    /\ cstrict = FALSE
    /\ cbump = "pending"

Init == InitRepo /\ InitParse

Next ==
    \/ \E m \in BumpMessages : Commit(m)
    \/ \E t \in BumpTags : MakeTag(t)
    \/ \E c \in BumpConfigs : NewRepo(c)
    \/ AutoTag
    \/ Exit

Spec == Init /\ [][Next]_vars

(***************************************************************************)
(* Properties of a resolution.  They are stated on the state NewRepo       *)
(* leaves (phase = "resolved"), from the commits, the tags and the         *)
(* configuration.                                                          *)
(***************************************************************************)
ErrNoStable == "no stable (non pre-release) version tags found"

ErrSameCommit == "no version to bump for the same commit"

ErrNoBump == "no version to bump found in commit message"

ErrNoMatch == "no match found for commit"

\* the errors of the prerelease and build metadata steps
CompositionErrors ==
    { "prerelease build number must be a unsigned integer",
      "*version.Version already has a PreRelease value set",
      "Malformed version",
      "cannot input custom method if enable build number",
      "build number must be a unsigned integer" }

\* NewRepo returned a GitRepo
Resolved == phase = "resolved" /\ repo.err = ""

\* NewRepo found its baseline
HasBaseline == phase = "resolved" /\ repo.currentVersion # NoVersion

\* the messages of the commits after the baseline's, oldest first
RangeOf == SubSeq(commits, repo.currentTag + 1, Len(commits))

\* what the messages of r classify to under the configuration at hand
ClassOf(m) == schemeBumper(m, cfg.scheme, cfg.strictMatch)

ClassesIn(r) == {ClassOf(r[i]) : i \in DOMAIN r} \ {"nil"}

\* the highest of a set of magnitudes, Patch for none
HighestOf(cl) ==
    IF "major" \in cl THEN "major" ELSE IF "minor" \in cl THEN "minor" ELSE "patch"

\* major.minor.patch bumped once by a magnitude
BumpedOnce(seg, mag) ==
    IF mag = "major" THEN <<seg[1] + 1, 0, 0>>
    ELSE IF mag = "minor" THEN <<seg[1], seg[2] + 1, 0>>
    ELSE <<seg[1], seg[2], seg[3] + 1>>

\* C1: in a successful resolution whose range has a commit that classifies,
\* major.minor.patch of the new version is the baseline bumped once by the
\* highest magnitude in the range, wherever it sits
C1_HighestMagnitudeOnce ==
    Resolved /\ ClassesIn(RangeOf) # {}
        => repo.newVersion.seg
              = BumpedOnce(repo.currentVersion.seg, HighestOf(ClassesIn(RangeOf)))

\* a Major commit followed by a Minor commit resolved to the Major bump
C1_Witness ==
    /\ Resolved
    /\ Len(RangeOf) = 2
    /\ ClassOf(RangeOf[1]) = "major"
    /\ ClassOf(RangeOf[2]) = "minor"
    /\ repo.newVersion.seg = <<repo.currentVersion.seg[1] + 1, 0, 0>>

\* C2: without strictMatch no commit message aborts the resolution, a commit
\* that matches nothing adds no bump, and a range where nothing classifies
\* (an empty one too) gives the Patch bump
C2_UnmatchedIsNoBump ==
    HasBaseline /\ ~cfg.strictMatch
        => /\ repo.err \notin {ErrNoMatch, ErrSameCommit, ErrNoBump}
           /\ repo.err = ""
                => repo.newVersion.seg
                      = BumpedOnce(repo.currentVersion.seg, HighestOf(ClassesIn(RangeOf)))

\* a range of commits that match nothing resolved to the Patch bump
C2_Witness ==
    /\ Resolved
    /\ ~cfg.strictMatch
    /\ RangeOf # <<>>
    /\ ClassesIn(RangeOf) = {}
    /\ repo.newVersion.seg = BumpedOnce(repo.currentVersion.seg, "patch")

\* C3: with strictMatch a version is produced (composition errors aside)
\* exactly when the range is not empty and every commit of it classifies
C3_StrictIffAllClassify ==
    HasBaseline /\ cfg.strictMatch /\ repo.err \notin CompositionErrors
        => (repo.err = ""
              <=> /\ RangeOf # <<>>
                  /\ \A i \in DOMAIN RangeOf : ClassOf(RangeOf[i]) # "nil")

\* strictMatch refused a range whose first commit classifies and whose second
\* does not
C3_Witness ==
    /\ HasBaseline
    /\ cfg.strictMatch
    /\ Len(RangeOf) = 2
    /\ ClassOf(RangeOf[1]) # "nil"
    /\ ClassOf(RangeOf[2]) = "nil"
    /\ repo.err = ErrNoMatch

\* the types of the conventional commits scheme
AuthorizedTypeWords ==
    {"feat", "fix", "build", "chore", "ci", "docs", "perf", "refactor", "revert",
     "style", "test"}

\* the messages of the model's commits start with their type
UnauthorizedType(m) == Head(m) \notin AuthorizedTypeWords

\* C5: under the conventional scheme with strictMatch a commit of a type that
\* is not authorized fails the resolution, breaking change or not
C5_StrictUnknownTypeFails ==
    /\ HasBaseline
    /\ cfg.strictMatch
    /\ cfg.scheme = "conventional"
    /\ \E i \in DOMAIN RangeOf : UnauthorizedType(RangeOf[i])
    => repo.err # ""

\* strictMatch refused a single commit "foo!: ..." with a BREAKING CHANGE footer
C5_Witness ==
    /\ HasBaseline
    /\ cfg.strictMatch
    /\ cfg.scheme = "conventional"
    /\ Len(RangeOf) = 1
    /\ Len(RangeOf[1]) > 3
    /\ SubSeq(RangeOf[1], 1, 3) = <<"foo", "!", ":">>
    /\ \E i \in 1..(Len(RangeOf[1]) - 1) :
          RangeOf[1][i] = "\n" /\ RangeOf[1][i + 1] = "BREAKING CHANGE:"
    /\ repo.err = ErrNoMatch

\* the tags that parse as a version with no prerelease
StableTags ==
    {t \in tags : NewVersion(t.name) # NoVersion /\ NewVersion(t.name).pre = <<>>}

\* major.minor.patch a is not below major.minor.patch b
SegAtLeast(a, b) ==
    \/ a[1] > b[1]
    \/ a[1] = b[1] /\ a[2] > b[2]
    \/ a[1] = b[1] /\ a[2] = b[2] /\ a[3] >= b[3]

\* C8: the baseline is a tag that parses as a version with no prerelease, of
\* the highest precedence among those; with no such tag the resolution fails
C8_BaselineIsHighestStable ==
    phase = "resolved" /\ validateConfig(cfg) = ""
        => IF StableTags = {}
           THEN repo.err = ErrNoStable /\ repo.newVersion = NoVersion
           ELSE /\ repo.err # ErrNoStable
                /\ \E t \in StableTags :
                      /\ repo.currentVersion = NewVersion(t.name)
                      /\ repo.currentTag = t.commit
                /\ \A t \in StableTags :
                      SegAtLeast(repo.currentVersion.seg, NewVersion(t.name).seg)

\* a resolution took the stable tag below a prerelease tag as its baseline,
\* with a tag that is no version in the repository
C8_Witness ==
    /\ Resolved
    /\ \E t \in tags : NewVersion(t.name) = NoVersion
    /\ \E t \in tags :
          /\ NewVersion(t.name) # NoVersion
          /\ NewVersion(t.name).pre # <<>>
          /\ Compare(NewVersion(t.name), repo.currentVersion) > 0
    /\ repo.currentVersion.pre = <<>>

\* the versions the tags parse as
ParsedTags == {NewVersion(t.name) : t \in tags} \ {NoVersion}

\* a prerelease name, numbering, and no timestamp
NumberedConfig ==
    /\ cfg.preReleaseName # <<>>
    /\ cfg.preReleaseNumber
    /\ cfg.preReleaseTimestampLayout = ""

\* the prerelease of v starts with "name."
MatchesName(v) == HasPrefix(v.pre, cfg.preReleaseName \o <<".">>)

\* the prerelease of v is "name.N", N an unsigned integer
IsNameN(v) ==
    /\ MatchesName(v)
    /\ Len(v.pre) = Len(cfg.preReleaseName) + 2
    /\ IsNumeral(v.pre[Len(v.pre)])

\* the prerelease "name.n"
Numbered(n) == cfg.preReleaseName \o <<".", FormatUint(n)>>

\* the tags above the baseline whose prerelease starts with "name."
Matching ==
    {v \in ParsedTags : MatchesName(v) /\ Compare(v, repo.currentVersion) > 0}

\* C9: with a name, numbering and no timestamp, the prerelease is name.(N+1)
\* when the highest tag above the baseline whose prerelease starts with
\* "name." has prerelease name.N, and name.1 when there is no such tag
C9_NumberContinues ==
    Resolved /\ NumberedConfig
        => IF Matching = {}
           THEN repo.newVersion.pre = Numbered(1)
           ELSE \A v \in Matching :
                   (\A o \in Matching : Compare(v, o) >= 0) /\ IsNameN(v)
                       => repo.newVersion.pre
                             = Numbered(ParseUint(v.pre[Len(v.pre)]) + 1)

\* C10: with a name, numbering and no timestamp, the prerelease is name.1
\* when no tag whose prerelease starts with "name." has the major.minor.patch
\* of the new version
C10_NumberPerBase ==
    /\ Resolved
    /\ NumberedConfig
    /\ \A v \in ParsedTags : MatchesName(v) => v.seg # repo.newVersion.seg
    => repo.newVersion.pre = Numbered(1)

(***************************************************************************)
(* The scheme parsers on their own: a message, a scheme and strictMatch    *)
(* are chosen, and ClassifyCommit classifies the message.                  *)
(***************************************************************************)
ConvLexemes == {"feat", "foo", "(", ")", "!", ":", " ", "\n", "BREAKING CHANGE:"}

\* messages of the repository's tests, and one message for each type
ConvProbes ==
    {<<t, ":", " ", "foo">> : t \in AuthorizedTypeWords \cup {"Feat"}}
        \cup {<<t, "!", ":", " ", "foo">> : t \in AuthorizedTypeWords}
        \cup { <<"feat", "(", "foo", ")", ":", " ", "foo">>,
               <<"foo", "(", "foo", ")", "!", ":", " ", "foo">>,
               <<"fix", "(", "foo", " ", "foo", ")", "!", ":", " ", "foo">>,
               <<"fix", ":", " ", "foo", "\n", "\n", "BREAKING CHANGE:", " ", "foo">>,
               <<"foo", ":", " ", "foo", "\n", "\n", "BREAKING CHANGE:", " ", "foo">>,
               <<"feat", " ", "foo", " ", "foo">> }

ConvMessages == SeqsUpTo(ConvLexemes, MaxConvLen) \cup ConvProbes

InitConventional ==
    /\ InitRepo
    /\ msg \in ConvMessages
    /\ cscheme = "conventional"
    /\ cstrict \in BOOLEAN
    /\ cbump = "pending"

SpecConventional == InitConventional /\ [][ClassifyCommit]_vars

AutotagLexemes ==
    {"[major]", "#major", "[Major]", "[minor]", "#minor", "#MINOR", "[patch]",
     "#patch", "[PATCH]", "major", "foo", " ", "\n"}

AutotagMessages == SeqsUpTo(AutotagLexemes, MaxAutotagLen)

InitAutotag ==
    /\ InitRepo
    /\ msg \in AutotagMessages
    /\ cscheme \in {"", "autotag"}
    /\ cstrict \in BOOLEAN
    /\ cbump = "pending"

SpecAutotag == InitAutotag /\ [][ClassifyCommit]_vars

\* ClassifyCommit has classified the message
Classified == cbump # "pending"

\* lexemes that are words
IsWord(lx) == lx \in AuthorizedTypeWords \cup {"foo", "Feat"}

\* the lexemes a scope "(...)" takes after the type of m, 0 with no scope
ScopeLen(m) ==
    IF Len(m) >= 2 /\ m[2] = "("
          /\ \E j \in 3..Len(m) :
                /\ m[j] = ")"
                /\ \A k \in 3..(j - 1) : m[k] \notin {"(", ")", "\n"}
    THEN (CHOOSE j \in 3..Len(m) :
             /\ m[j] = ")"
             /\ \A k \in 3..(j - 1) : m[k] \notin {"(", ")", "\n"}) - 1
    ELSE 0

\* the header of m is "type(scope)?!:..."
HeaderBang(m) ==
    /\ Len(m) >= 3 + ScopeLen(m)
    /\ IsWord(m[1])
    /\ m[2 + ScopeLen(m)] = "!"
    /\ m[3 + ScopeLen(m)] = ":"

\* the header of m is "type(scope)?:..."
HeaderPlain(m) ==
    /\ Len(m) >= 2 + ScopeLen(m)
    /\ IsWord(m[1])
    /\ m[2 + ScopeLen(m)] = ":"

\* the header of m starts with a word and a later line begins with
\* "BREAKING CHANGE:"
BreakingFooter(m) ==
    /\ m # <<>>
    /\ IsWord(m[1])
    /\ \E i \in 3..Len(m) : m[i - 1] = "\n" /\ m[i] = "BREAKING CHANGE:"

\* m starts with an authorized type, and the type ends there
StartsWithType(m) ==
    /\ m # <<>>
    /\ m[1] \in AuthorizedTypeWords
    /\ Len(m) >= 2 => m[2] \in {"(", ")", "!", ":", " ", "\n"}

\* the claim C4 as the specification states it: a "!" before the colon of
\* the header or a BREAKING CHANGE footer gives Major, whatever the type and
\* whatever strictMatch
C4_BreakingAlwaysMajor ==
    Classified /\ (HeaderBang(msg) \/ BreakingFooter(msg)) => cbump = "major"

\* C4: a "!" before the colon of the header or a BREAKING CHANGE footer gives
\* Major whatever the type without strictMatch, and with strictMatch when the
\* message starts with an authorized type
C4_BreakingMajor ==
    /\ Classified
    /\ HeaderBang(msg) \/ BreakingFooter(msg)
    /\ ~cstrict \/ StartsWithType(msg)
    => cbump = "major"

\* without strictMatch "foo!:..." with no footer was classified Major
C4_Witness ==
    /\ Classified
    /\ ~cstrict
    /\ HeaderBang(msg)
    /\ msg[1] = "foo"
    /\ ~BreakingFooter(msg)
    /\ cbump = "major"

\* the bump of a type
TypeTable(t) ==
    IF t = "feat" THEN "minor"
    ELSE IF t \in AuthorizedTypeWords THEN "patch"
    ELSE "nil"

\* C6: a message with no "!" and no BREAKING CHANGE footer, that starts with
\* no space, is classified by the type of its header when the header is
\* "type(scope)?: subject", and not classified otherwise
C6_HeaderFormOnly ==
    /\ Classified
    /\ msg # <<>>
    /\ msg[1] \notin {" ", "\n"}
    /\ \A i \in DOMAIN msg : msg[i] \notin {"!", "BREAKING CHANGE:"}
    => cbump = IF HeaderPlain(msg) THEN TypeTable(msg[1]) ELSE "nil"

MajorTokens == {"[major]", "#major", "[Major]"}

MinorTokens == {"[minor]", "#minor", "#MINOR"}

PatchTokens == {"[patch]", "#patch", "[PATCH]"}

\* a lexeme of m is in ts
HasToken(m, ts) == \E i \in DOMAIN m : m[i] \in ts

\* C7: a message is classified as the highest magnitude it has a token of,
\* in any letter case and any order, and not classified when it has none
C7_HighestTokenWins ==
    Classified
        => cbump = IF HasToken(msg, MajorTokens) THEN "major"
                   ELSE IF HasToken(msg, MinorTokens) THEN "minor"
                   ELSE IF HasToken(msg, PatchTokens) THEN "patch"
                   ELSE "nil"

\* a message with a minor or patch token before "[Major]" was classified Major
C7_Witness ==
    /\ Classified
    /\ \E i, j \in DOMAIN msg :
          /\ i < j
          /\ msg[i] \in MinorTokens \cup PatchTokens
          /\ msg[j] = "[Major]"
    /\ cbump = "major"

(***************************************************************************)
(* Composition of the prerelease and the build metadata: runs that only    *)
(* ask for the version, over repositories whose tags carry prereleases and *)
(* build metadata, and over every combination of the composition options.  *)
(***************************************************************************)
ComposeTags ==
    { <<"v", "1", ".", "0", ".", "1">>,
      <<"v", "1", ".", "0", ".", "1", "+", "5">>,
      <<"v", "1", ".", "0", ".", "1", "+", "g1">>,
      <<"v", "1", ".", "0", ".", "2", "-", "dev", ".", "1">>,
      <<"v", "1", ".", "0", ".", "2", "-", "dev", ".", "1", "+", "9">>,
      <<"v", "1", ".", "0", ".", "2", "-", "dev">> }

\* the histories of the branch: the tags are on its first commit
ComposeHistories ==
    { <<InitialCommit>>,
      <<InitialCommit, <<"foo">>>>,
      <<InitialCommit, <<"fix", ":", " ", "#minor">>>> }

ComposeConfigs ==
    { [DefaultCfg EXCEPT !.scheme = "autotag", !.strictMatch = st,
                         !.preReleaseName = n, !.preReleaseNumber = num,
                         !.preReleaseTimestampLayout = ts,
                         !.buildNumber = bn, !.buildMetadata = bm] :
        st \in BOOLEAN, n \in {<<>>, Dev}, num \in BOOLEAN,
        ts \in {"", "epoch", "datetime"}, bn \in BOOLEAN, bm \in {<<>>, <<"g1">>} }

InitCompose ==
    /\ commits \in ComposeHistories
    /\ tags \in {{[name |-> t, commit |-> 1] : t \in ts} :
                    ts \in {x \in SUBSET ComposeTags : Cardinality(x) <= MaxTags}}
    /\ phase = "idle"
    /\ cfg = DefaultCfg
    /\ repo = NilRepo("")
    /\ env = DefaultEnv
    /\ InitParse

NextCompose ==
    \/ \E c \in ComposeConfigs : NewRepo(c)
    \/ Exit

SpecCompose == InitCompose /\ [][NextCompose]_vars

\* the tags of the highest precedence among those that are versions
LatestTags == {v \in ParsedTags : \A o \in ParsedTags : Compare(v, o) >= 0}

\* the build number that follows the build metadata meta
NextBuild(meta) == IF meta = <<>> THEN <<"1">> ELSE <<FormatUint(ParseUint(meta[1]) + 1)>>

\* the claim C11 as the specification states it: with buildNumber the build
\* metadata of the new version is the counter that follows the build
\* metadata of the baseline
C11_BuildOfBaseline ==
    Resolved /\ cfg.buildNumber
        => repo.newVersion.meta = NextBuild(repo.currentVersion.meta)

\* C11: with buildNumber the build metadata of the new version is the
\* counter that follows the build metadata of a tag of the highest
\* precedence among all the version tags, prerelease tags included
C11_BuildOfLatestTag ==
    Resolved /\ cfg.buildNumber
        => \E v \in LatestTags : repo.newVersion.meta = NextBuild(v.meta)

\* the build number followed the 9 of a prerelease tag above a baseline that
\* carries the build metadata 5
C11_Witness ==
    /\ Resolved
    /\ cfg.buildNumber
    /\ repo.currentVersion.meta = <<"5">>
    /\ \A v \in LatestTags : v.pre # <<>> /\ v.meta = <<"9">>
    /\ repo.newVersion.meta = <<"10">>

\* C12: with buildNumber the build metadata of the new version is 1 after an
\* empty build metadata and n+1 after the unsigned integer n, a build metadata
\* that is no unsigned integer fails the resolution, and with a prerelease
\* name and no number the prerelease is the name alone
C12_BuildCounter ==
    phase = "resolved" /\ cfg.buildNumber /\ repo.latestTagVersion # NoVersion
        => /\ repo.err = "" =>
                /\ repo.newVersion.meta = NextBuild(repo.latestTagVersion.meta)
                /\ cfg.preReleaseName # <<>> /\ ~cfg.preReleaseNumber
                        /\ cfg.preReleaseTimestampLayout = ""
                      => repo.newVersion.pre = cfg.preReleaseName
           /\ repo.latestTagVersion.meta # <<>>
                /\ repo.latestTagVersion.meta \notin {<<n>> : n \in Range(Numerals)}
                => repo.err # ""

\* the name dev and the build number 6 after the tag v1.0.1+5: 1.0.2-dev+6
C12_Witness ==
    /\ Resolved
    /\ cfg.buildNumber
    /\ repo.latestTagVersion.meta = <<"5">>
    /\ cfg.preReleaseName = Dev
    /\ String(repo.newVersion) = <<"1", ".", "0", ".", "2", "-", "dev", "+", "6">>

\* the build metadata g1 of the latest tag failed a resolution with buildNumber
C12_WitnessRefused ==
    /\ phase = "resolved"
    /\ cfg.buildNumber
    /\ repo.latestTagVersion.meta = <<"g1">>
    /\ repo.err = "build number must be a unsigned integer"

\* the timestamp of the layout at the time of the tests
Stamp(layout) == IF layout = "epoch" THEN "1546300800" ELSE "20190101000000"

\* C17: with a timestamp layout the prerelease is the timestamp, after the
\* name and a dot when there is a name, whatever preReleaseNumber and the
\* prerelease tags
C17_TimestampAlone ==
    Resolved /\ cfg.preReleaseTimestampLayout # ""
        => repo.newVersion.pre
              = IF cfg.preReleaseName = <<>>
                THEN <<Stamp(cfg.preReleaseTimestampLayout)>>
                ELSE cfg.preReleaseName
                        \o <<".", Stamp(cfg.preReleaseTimestampLayout)>>

\* dev.<epoch> resolved with preReleaseNumber set and the tag v1.0.2-dev.1
\* above the baseline
C17_Witness ==
    /\ Resolved
    /\ cfg.preReleaseTimestampLayout = "epoch"
    /\ cfg.preReleaseNumber
    /\ cfg.preReleaseName = Dev
    /\ repo.curPreReleaseVer.pre = <<"dev", ".", "1">>
    /\ repo.newVersion.pre = <<"dev", ".", "1546300800">>

BranchNames == {"main", "master", "dev"}

RECURSIVE Orders(_)
\* the sequences that list every element of S once
Orders(S) ==
    IF S = {} THEN {<<>>}
    ELSE UNION {{<<x>> \o o : o \in Orders(S \ {x})} : x \in S}

\* what repo.Branches() may return
BranchListings == UNION {Orders(S) : S \in SUBSET BranchNames}

\* the calls of NewRepo on the collaborator
Calls == {"Branches", "Tags", "CommitByRevision", "BranchCommitID", "BranchCommit", "RevList"}

Envs == {[branches |-> bs, fault |-> f] : bs \in BranchListings, f \in Calls \cup {"none"}}

EnvHistories ==
    { <<InitialCommit>>,
      <<InitialCommit, <<"foo">>>>,
      <<InitialCommit, <<"fix", ":", " ", "#minor">>>> }

EnvTagSets ==
    { {},
      {[name |-> <<"foo">>, commit |-> 1]},
      {[name |-> <<"v", "1", ".", "0", ".", "1">>, commit |-> 1]} }

\* the composition options of a configuration: build metadata, buildNumber,
\* prerelease name, timestamp layout.  All but the first are not valid
EnvOptions ==
    { <<<<>>, FALSE, <<>>, "">>,
      <<<<"a_b">>, FALSE, <<>>, "">>,
      <<<<"g1">>, TRUE, <<>>, "">>,
      <<<<>>, FALSE, <<"01">>, "">>,
      <<<<>>, FALSE, <<>>, "foo">> }

EnvConfigs ==
    { [DefaultCfg EXCEPT !.scheme = "autotag", !.strictMatch = st, !.branch = b,
                         !.buildMetadata = o[1], !.buildNumber = o[2],
                         !.preReleaseName = o[3],
                         !.preReleaseTimestampLayout = o[4]] :
        st \in BOOLEAN, b \in BranchNames \cup {""}, o \in EnvOptions }

InitEnv ==
    /\ commits \in EnvHistories
    /\ tags \in EnvTagSets
    /\ phase = "idle"
    /\ cfg = DefaultCfg
    /\ repo = NilRepo("")
    /\ env \in Envs
    /\ InitParse

NextEnv ==
    \/ \E c \in EnvConfigs : NewRepo(c)
    \/ AutoTag
    \/ Exit

SpecEnv == InitEnv /\ [][NextEnv]_vars

\* C13: a step from a resolution that failed writes no tag, NewRepo writes
\* no tag, and a resolution that failed left no new version
C13_NoTagOnError ==
    [][/\ phase = "resolved" /\ repo.err # "" => tags' = tags
       /\ phase' = "resolved"
            => tags' = tags /\ (repo'.err # "" => repo'.newVersion = NoVersion)]_vars

\* a resolution failed on a commit strictMatch does not classify, in a
\* repository that has a baseline
C13_Witness ==
    /\ phase = "resolved"
    /\ repo.err = ErrNoMatch
    /\ repo.currentVersion # NoVersion
    /\ repo.newVersion = NoVersion
    /\ tags # {}

\* the configuration is one validation refuses
NotValid(c) ==
    \/ c.buildMetadata = <<"a_b">>
    \/ c.buildNumber /\ c.buildMetadata # <<>>
    \/ c.preReleaseName = <<"01">>
    \/ c.preReleaseTimestampLayout \notin {"", "epoch", "datetime"}

C16_CollaboratorFailureFatal ==
    phase = "resolved" /\ env.fault \in repo.reads
        => repo.err # "" /\ repo.newVersion = NoVersion

MaxNameLen == 3

NameLexemes == {"dev", "0", "1", "01", "0a", "a_b", ".", "-"}

NameSeqs == UNION {[1..n -> NameLexemes] : n \in 0..MaxNameLen}

ValidateConfigs ==
    { [DefaultCfg EXCEPT !.scheme = "autotag", !.preReleaseName = n] : n \in NameSeqs }

InitValidate ==
    /\ commits = <<InitialCommit>>
    /\ tags = {[name |-> <<"v", "1", ".", "0", ".", "1">>, commit |-> 1]}
    /\ phase = "idle"
    /\ cfg = DefaultCfg
    /\ repo = NilRepo("")
    /\ env = DefaultEnv
    /\ InitParse

NextValidate ==
    \/ \E c \in ValidateConfigs : NewRepo(c)
    \/ Exit

SpecValidate == InitValidate /\ [][NextValidate]_vars

\* the identifier is made of digits alone
PurelyNumeric(s) == s # <<>> /\ \A i \in DOMAIN s : s[i] \in Digits

\* the identifier has a character outside [0-9A-Za-z-]
OutsideGrammar(s) ==
    \E i \in DOMAIN s :
        s[i] \notin Range(UpperLetters) \cup Range(LowerLetters) \cup Digits \cup {"-"}

\* the dot-separated identifiers of the configured name
IdentifiersOf(name) == Range(SplitChars(Text(name), <<>>))

\* C15: a configured prerelease name is refused exactly when one of its
\* identifiers is empty, has a character outside [0-9A-Za-z-], or is made of
\* digits alone and begins with 0
C15_RejectsByGrammar ==
    phase = "resolved" /\ cfg.preReleaseName # <<>>
        => (repo.err = "not valid SemVer pre-release name"
              <=> \E s \in IdentifiersOf(cfg.preReleaseName) :
                      \/ s = <<>>
                      \/ OutsideGrammar(s)
                      \/ PurelyNumeric(s) /\ Head(s) = "0")

(***************************************************************************)
(* The header of a message under the autotag scheme.                       *)
(***************************************************************************)
RECURSIVE HeaderOf(_)
\* the first line of the message: its lexemes before the first line break
HeaderOf(m) ==
    IF m = <<>> \/ Head(m) = "\n" THEN <<>>
    ELSE <<Head(m)>> \o HeaderOf(Tail(m))

\* C19: under the autotag scheme a message is classified as its header alone
\* is, whatever its body
C19_HeaderOnly ==
    Classified => cbump = schemeBumper(HeaderOf(msg), cscheme, cstrict)

(***************************************************************************)
(* The order of the tags: runs over repositories that have tags of the     *)
(* same precedence, on the same commit or not, with the same build         *)
(* metadata or not.                                                        *)
(***************************************************************************)
OrderTags ==
    { <<"1", ".", "0", ".", "0">>,
      <<"v", "1", ".", "0", ".", "0", "+", "7">>,
      <<"v", "1", ".", "0", ".", "1", "-", "dev", ".", "1">>,
      <<"v", "1", ".", "0", ".", "1", "-", "dev", ".", "1", "+", "3">> }

OrderHistories ==
    { <<InitialCommit, <<"fix", ":", " ", "#minor">>>>,
      <<InitialCommit, <<"fix", ":", " ", "#minor">>, <<"foo">>>> }

\* the placements of the tag names ns on the commits 1..n
TagsOn(ns, n) ==
    {{[name |-> t, commit |-> f[t]] : t \in ns} : f \in [ns -> 1..n]}

OrderConfigs ==
    { [DefaultCfg EXCEPT !.scheme = "autotag", !.strictMatch = st,
                         !.preReleaseName = o[1], !.preReleaseNumber = o[2],
                         !.buildNumber = bn] :
        st \in BOOLEAN, bn \in BOOLEAN, o \in {<<<<>>, FALSE>>, <<Dev, TRUE>>} }

InitOrder ==
    /\ commits \in OrderHistories
    /\ tags \in UNION {TagsOn(ns, Len(commits)) :
                          ns \in {x \in SUBSET OrderTags : Cardinality(x) <= MaxTags}}
    /\ phase = "idle"
    /\ cfg = DefaultCfg
    /\ repo = NilRepo("")
    /\ env = DefaultEnv
    /\ InitParse

NextOrder ==
    \/ \E c \in OrderConfigs : NewRepo(c)
    \/ Exit

SpecOrder == InitOrder /\ [][NextOrder]_vars

\* what NewRepo returns on the tags as sorted in keys, for the configuration,
\* history and collaborator of the state
OutcomeOn(keys) ==
    LET r == newRepo(cfg, commits, keys, env)
    IN  <<r.err, r.newVersion>>

\* C21: the outcome of a resolution, its error or its version, is the one
\* every order the sort may leave the tags in gives
C21_OrderIndependent ==
    phase = "resolved"
        => \A keys \in SortedOrders(Versions(tags)) :
              OutcomeOn(keys) = <<repo.err, repo.newVersion>>

(***************************************************************************)
(* The resolution as a whole: runs under both schemes, over commit ranges  *)
(* of no, one and two commits, and over every combination of the           *)
(* composition options.                                                    *)
(***************************************************************************)
ResolveTags ==
    { <<"v", "1", ".", "0", ".", "1">>,
      <<"0", ".", "9", ".", "0">>,
      <<"v", "1", ".", "0", ".", "1", "+", "5">>,
      <<"v", "1", ".", "0", ".", "2", "-", "dev", ".", "1">>,
      <<"v", "1", ".", "0", ".", "2", "-", "dev", ".", "1", "+", "9">>,
      <<"foo">> }

\* the histories of the branch: the tags are on its first commit
ResolveHistories ==
    {<<InitialCommit>>}
        \cup {<<InitialCommit, m>> : m \in BumpMessages}
        \cup { <<InitialCommit, <<"feat", ":", " ", "#minor">>,
                 <<"feat", "!", ":", " ", "[major]">>>>,
               <<InitialCommit, <<"feat", "!", ":", " ", "[major]">>,
                 <<"fix", ":", " ", "[patch]">>>>,
               <<InitialCommit, <<"foo">>, <<"feat", ":", " ", "#minor">>>>,
               <<InitialCommit, <<"fix", ":", " ", "[patch]">>, <<"foo">>>> }

ResolveConfigs ==
    { [DefaultCfg EXCEPT !.scheme = s, !.strictMatch = st,
                         !.preReleaseName = n, !.preReleaseNumber = num,
                         !.preReleaseTimestampLayout = ts,
                         !.buildNumber = bn, !.buildMetadata = bm] :
        s \in {"autotag", "conventional"}, st \in BOOLEAN, n \in {<<>>, Dev},
        num \in BOOLEAN, ts \in {"", "epoch", "datetime"}, bn \in BOOLEAN,
        bm \in {<<>>, <<"g1">>} }

InitResolve ==
    /\ commits \in ResolveHistories
    /\ tags \in {{[name |-> t, commit |-> 1] : t \in ts} :
                    ts \in {x \in SUBSET ResolveTags : Cardinality(x) <= MaxTags}}
    /\ phase = "idle"
    /\ cfg = DefaultCfg
    /\ repo = NilRepo("")
    /\ env = DefaultEnv
    /\ InitParse

NextResolve ==
    \/ \E c \in ResolveConfigs : NewRepo(c)
    \/ Exit

SpecResolve == InitResolve /\ [][NextResolve]_vars

\* C22: the version of a resolution that succeeded is of higher precedence
\* than every tag that is a version with no prerelease
C22_AboveBaseline ==
    Resolved =>
        \A t \in StableTags : GreaterThan(repo.newVersion, NewVersion(t.name))

\* a resolution under the conventional scheme gave a version with a
\* prerelease and build metadata, in a repository that has a stable tag and a
\* prerelease tag above it
C22_Witness ==
    /\ Resolved
    /\ cfg.scheme = "conventional"
    /\ StableTags # {}
    /\ \E v \in ParsedTags : v.pre # <<>>
    /\ Len(commits) > 1
    /\ repo.newVersion.pre # <<>>
    /\ repo.newVersion.meta # <<>>

====
